---- MODULE Spec2Model ----
(***************************************************************************)
(* CarLog data-access layer (backend/db/db_helper.py): the connection      *)
(* scopes connection() and transaction(), the generic CRUD executor, and   *)
(* the inline schema creation with its seeding.                            *)
(*                                                                         *)
(* The store is the sqlite file at DB_PATH.  Its committed content is the  *)
(* variable `store`; every handler opens its own connection, works on a    *)
(* private copy and the copy replaces `store` only when commit succeeds.   *)
(***************************************************************************)
EXTENDS Integers, Sequences, FiniteSets, TLC

VARIABLES
    fileExists,   \* os.path.exists(DB_PATH)
    store,        \* committed content: [tables, seq]
    now,          \* the clock read by datetime('now')
    openConns,    \* connections opened by sqlite3.connect and never closed
    writes,       \* number of handler calls that changed the committed store
    last          \* what the last handler call did and gave to its caller

vars == <<fileExists, store, now, openConns, writes, last>>

(***************************************************************************)
(* Bounds of the model.                                                    *)
(***************************************************************************)
MaxWrites == 2     \* store-changing handler calls in one behaviour
MaxTime == 1       \* ticks of the clock
MaxLeaks == 1      \* connections left open before no more PRAGMA faults are injected
MaxBody == 2       \* statements in the unit of work handed to a scope

\* SQL NULL in a numeric column (every value the model stores there is >= 0)
Null == 0 - 1
NoExc == "none"

(***************************************************************************)
(* The schema of _create_tables_inline.  Of each table the model keeps the *)
(* primary key, the text column that names the row (vin, name or key), one *)
(* data column and updated_at where the schema declares it.                *)
(***************************************************************************)
AllTables ==
    {"users", "vehicles", "repairs", "fuel_logs", "maintenance_intervals",
     "mileage_history", "trips", "settings"}

\* id INTEGER PRIMARY KEY AUTOINCREMENT
AutoIncrement(t) == t \notin {"vehicles", "settings"}

PkCol(t) ==
    CASE t = "vehicles" -> "vin"
      [] t = "settings" -> "key"
      [] OTHER -> "id"

TextCol(t) ==
    CASE t = "users" -> "name"
      [] t = "settings" -> "key"
      [] OTHER -> "vin"

DataCol(t) ==
    CASE t = "users" -> "email"
      [] t = "vehicles" -> "current_mileage"
      [] t = "repairs" -> "mileage"
      [] t = "fuel_logs" -> "odometer"
      [] t = "maintenance_intervals" -> "interval_miles"
      [] t = "mileage_history" -> "mileage"
      [] t = "trips" -> "distance"
      [] OTHER -> "value"

\* mileage_history declares created_at only
HasUpdatedAt(t) == t # "mileage_history"

Columns(t) ==
    {PkCol(t), TextCol(t), DataCol(t)}
        \cup (IF HasUpdatedAt(t) THEN {"updated_at"} ELSE {})

\* columns declared NOT NULL with no DEFAULT
NotNullCols(t) ==
    {TextCol(t)} \cup
        (IF t \in {"fuel_logs", "mileage_history", "trips", "settings"}
            THEN {DataCol(t)} ELSE {})

\* PRIMARY KEY and UNIQUE columns
UniqueCols(t) == {PkCol(t)} \cup (IF t = "users" THEN {"email"} ELSE {})

\* DEFAULT of a column that an INSERT omits
ColumnDefault(t, c, rowid, time) ==
    CASE c = "id" -> rowid
      [] c = "updated_at" -> time
      [] t = "vehicles" /\ c = "current_mileage" -> 0
      [] OTHER -> Null

\* REFERENCES clauses of the schema, as <<child table, parent table>>: the
\* script declares none (repairs.vin is "TEXT NOT NULL" and nothing more).
ForeignKeys == {}

EmptyStore ==
    [tables |-> << >>, seq |-> [t \in {u \in AllTables : AutoIncrement(u)} |-> 0]]

TableSet(s) == DOMAIN s.tables

(***************************************************************************)
(* The sqlite engine, as far as the handlers use it.  A statement runs on  *)
(* a store value s and gives [store, exc, rowcount, lastrowid]; a failed   *)
(* statement changes nothing (statement-level atomicity).                  *)
(***************************************************************************)
Max(S) == CHOOSE x \in S : \A y \in S : y <= x

MaxRowid(rows) == IF rows = {} THEN 0 ELSE Max({r["rowid"] : r \in rows})

\* the rowid sqlite gives the next row: AUTOINCREMENT never reuses one
NextRowid(s, t) ==
    LET m == MaxRowid(s.tables[t]) IN
    IF AutoIncrement(t) /\ s.seq[t] > m THEN s.seq[t] + 1 ELSE m + 1

NewRow(t, data, rowid, time) ==
    [c \in Columns(t) \cup {"rowid"} |->
        IF c \in DOMAIN data THEN data[c]
        ELSE IF c = "rowid" THEN rowid
        ELSE ColumnDefault(t, c, rowid, time)]

\* no two rows agree on a non-NULL PRIMARY KEY / UNIQUE column
UniqueOk(t, rows) ==
    \A r1 \in rows : \A r2 \in rows \ {r1} : \A c \in UniqueCols(t) :
        (c \notin NotNullCols(t) /\ r1[c] = Null) \/ r1[c] # r2[c]

StmtFails(s, e) == [store |-> s, exc |-> e, rowcount |-> 0 - 1, lastrowid |-> 0]

\* the WHERE fragment: "<col> = ?" with its parameter, or one true of every row
WhereAll == [col |-> "1", val |-> "1"]

Matches(r, w) == w.col = "1" \/ r[w.col] = w.val

\* the row is stored unless a NOT NULL column is missing or a key is taken
InsertRow(s, t, data, row, orIgnore) ==
    IF (\E c \in NotNullCols(t) : c \notin DOMAIN data)
            \/ ~UniqueOk(t, s.tables[t] \cup {row})
    THEN IF orIgnore
         THEN [store |-> s, exc |-> NoExc, rowcount |-> 0, lastrowid |-> 0]
         ELSE StmtFails(s, "IntegrityError")
    ELSE [store |->
            [tables |-> (t :> (s.tables[t] \cup {row})) @@ s.tables,
             seq |-> IF AutoIncrement(t)
                     THEN (t :> row["rowid"]) @@ s.seq ELSE s.seq],
          exc |-> NoExc, rowcount |-> 1, lastrowid |-> row["rowid"]]

\* INSERT [OR IGNORE] INTO t (<keys of data>) VALUES (?, ...)
SqlInsert(s, t, data, time, orIgnore) ==
    IF t \notin TableSet(s) THEN StmtFails(s, "OperationalError")
    ELSE IF DOMAIN data = {} THEN StmtFails(s, "OperationalError")  \* "INSERT INTO t () VALUES ()"
    ELSE InsertRow(s, t, data, NewRow(t, data, NextRowid(s, t), time), orIgnore)

SetRow(r, data, time) ==
    [c \in DOMAIN r |->
        IF c = "updated_at" THEN time
        ELSE IF c \in DOMAIN data THEN data[c] ELSE r[c]]

\* the table after the statement, unless a key would be taken twice
ReplaceRows(s, t, rows, n) ==
    IF ~UniqueOk(t, rows) THEN StmtFails(s, "IntegrityError")
    ELSE [store |-> [s EXCEPT !.tables = (t :> rows) @@ s.tables],
          exc |-> NoExc, rowcount |-> n, lastrowid |-> 0]

UpdateRows(s, t, data, time, hit) ==
    ReplaceRows(s, t, (s.tables[t] \ hit) \cup {SetRow(r, data, time) : r \in hit},
                Cardinality(hit))

\* UPDATE t SET <keys of data> = ?, updated_at = datetime('now') WHERE w
SqlUpdate(s, t, data, w, time) ==
    IF t \notin TableSet(s) THEN StmtFails(s, "OperationalError")
    ELSE IF "updated_at" \notin Columns(t) THEN StmtFails(s, "OperationalError")
    ELSE UpdateRows(s, t, data, time, {r \in s.tables[t] : Matches(r, w)})

\* a row of a child table still names a row that the DELETE removes
Orphans(s, t, hit) ==
    \E fk \in ForeignKeys :
        /\ fk[2] = t
        /\ fk[1] \in TableSet(s)
        /\ \E r \in hit : \E c \in s.tables[fk[1]] : c["vin"] = r[PkCol(t)]

DeleteRows(s, t, hit) ==
    IF Orphans(s, t, hit) THEN StmtFails(s, "IntegrityError")
    ELSE [store |-> [s EXCEPT !.tables = (t :> (s.tables[t] \ hit)) @@ s.tables],
          exc |-> NoExc, rowcount |-> Cardinality(hit), lastrowid |-> 0]

\* DELETE FROM t WHERE w, with PRAGMA foreign_keys = ON
SqlDelete(s, t, w) ==
    IF t \notin TableSet(s) THEN StmtFails(s, "OperationalError")
    ELSE DeleteRows(s, t, {r \in s.tables[t] : Matches(r, w)})

\* cursor.execute(query, params) for the three statements the executor builds
Execute(s, st, time) ==
    CASE st.kind = "insert" -> SqlInsert(s, st.table, st.data, time, FALSE)
      [] st.kind = "update" -> SqlUpdate(s, st.table, st.data, st.where, time)
      [] OTHER -> SqlDelete(s, st.table, st.where)

(***************************************************************************)
(* The unit of work run inside a scope: statements executed in order on    *)
(* the connection, then an optional raise.  A failing statement raises at  *)
(* once.  Gives [store, exc, rowcount, lastrowid] of the connection's      *)
(* uncommitted view.                                                       *)
(***************************************************************************)
RECURSIVE RunStmts(_, _, _, _)
RECURSIVE RunRest(_, _, _)
RunStmts(s, stmts, time, prev) ==
    IF stmts = << >> THEN prev
    ELSE RunRest(Execute(s, Head(stmts), time), Tail(stmts), time)

RunRest(r, stmts, time) ==
    IF r.exc # NoExc THEN r ELSE RunStmts(r.store, stmts, time, r)

NothingRun(s) == [store |-> s, exc |-> NoExc, rowcount |-> 0, lastrowid |-> 0]

RaiseAfter(r, e) == IF r.exc = NoExc /\ e # NoExc THEN [r EXCEPT !.exc = e] ELSE r

RunBody(s, body, time) ==
    RaiseAfter(RunStmts(s, body.stmts, time, NothingRun(s)), body.raises)

\* exceptions that "except Exception" does not catch
BaseExceptions == {"KeyboardInterrupt"}

NoFaults == [pragma |-> FALSE, begin |-> FALSE, commit |-> FALSE, rollback |-> FALSE]

(***************************************************************************)
(* connection() and transaction().  kind is "connection" or "transaction"; *)
(* f says which engine calls fail.  Gives                                  *)
(*   store     the committed store after the scope                         *)
(*   calls     the calls made, in order                                    *)
(*   original  the first exception raised in the scope (NoExc if none)     *)
(*   raised    the exception the caller gets (NoExc if none)               *)
(*   dirty     the body left uncommitted changes on the connection         *)
(*   leaked    connections opened and not closed                           *)
(*   rowcount, lastrowid   of the body's last statement                    *)
(***************************************************************************)

\* ExceptFinally with a commit added to the finally clause
ExceptFinallyCommitsToo(s, calls, e, f, body) ==
    [store |-> s,
     calls |-> calls \o <<"rollback", "log", "commit", "close">>,
     original |-> e, raised |-> e, dirty |-> body.store # s,
     leaked |-> 0, rowcount |-> body.rowcount, lastrowid |-> body.lastrowid]

\* ExceptFinally with conn.commit() where the code has conn.rollback()
ExceptFinallyKeepsWork(s, calls, e, f, body) ==
    [store |-> body.store,
     calls |-> calls \o <<"commit", "log", "close">>,
     original |-> e, raised |-> e, dirty |-> body.store # s,
     leaked |-> 0, rowcount |-> body.rowcount, lastrowid |-> body.lastrowid]

\* except Exception as e: if conn: conn.rollback(); logger.error(...); raise
\* finally: if conn: conn.close()
ExceptFinally(s, calls, e, f, body) ==
    [store |-> s,
     calls |-> calls \o (IF f.rollback THEN <<"rollback", "close">>
                         ELSE <<"rollback", "log", "close">>),
     original |-> e,
     raised |-> IF f.rollback THEN "RollbackError" ELSE e,
     dirty |-> body.store # s,
     leaked |-> 0, rowcount |-> body.rowcount, lastrowid |-> body.lastrowid]

Opened(kind) ==
    IF kind = "transaction" THEN <<"connect", "pragma", "begin">>
    ELSE <<"connect", "pragma">>

\* yield conn; conn.commit(), with b what the unit of work did
AfterBody(s, calls, b, f) ==
    IF b.exc \in BaseExceptions
    THEN \* not caught: only the finally clause runs; close drops the changes
         [store |-> s, calls |-> Append(calls, "close"),
          original |-> b.exc, raised |-> b.exc, dirty |-> b.store # s,
          leaked |-> 0, rowcount |-> b.rowcount, lastrowid |-> b.lastrowid]
    ELSE IF b.exc # NoExc
    THEN ExceptFinally(s, calls, b.exc, f, b)
    ELSE IF f.commit
    THEN ExceptFinally(s, Append(calls, "commit"), "CommitError", f, b)
    ELSE [store |-> b.store, calls |-> calls \o <<"commit", "close">>,
          original |-> NoExc, raised |-> NoExc, dirty |-> b.store # s,
          leaked |-> 0, rowcount |-> b.rowcount, lastrowid |-> b.lastrowid]

Scope(kind, s, body, f, time) ==
    IF f.pragma
    THEN \* get_connection raises after sqlite3.connect: conn is still None
         [store |-> s, calls |-> <<"connect", "pragma", "log">>,
          original |-> "PragmaError", raised |-> "PragmaError",
          dirty |-> FALSE, leaked |-> 1, rowcount |-> 0, lastrowid |-> 0]
    ELSE IF kind = "transaction" /\ f.begin
    THEN ExceptFinally(s, Opened(kind), "BeginError", f, NothingRun(s))
    ELSE AfterBody(s, Append(Opened(kind), "body"), RunBody(s, body, time), f)

(***************************************************************************)
(* Schema creation and seeding.                                            *)
(***************************************************************************)
\* CreateSchema with DROP TABLE IF EXISTS before each CREATE TABLE
CreateSchemaAfresh(s) == [s EXCEPT !.tables = [t \in AllTables |-> {}]]

\* conn.executescript(schema): CREATE TABLE IF NOT EXISTS, for every table
CreateSchema(s) ==
    [s EXCEPT !.tables =
        [t \in AllTables |-> IF t \in TableSet(s) THEN s.tables[t] ELSE {}]]

SeedVehicles ==
    << <<"1HGCM82633A004352", 45000>>, <<"WBAJ71M202A123456", 28000>>,
       <<"1F1J7J2033A123456", 62000>>, <<"1F1J7J2033A123457", 35000>>,
       <<"1T3CHJ6033A123456", 78000>>, <<"1N3CHJ3033A123456", 15000>>,
       <<"1N5KJ62F25A123456", 52000>>, <<"2HGCG225X8A123456", 41000>>,
       <<"WDCV21M423A123456", 33000>>, <<"5YFBURHE5HP123456", 55000>> >>

SeedMaintenance ==
    << <<"1HGCM82633A004352", 5000>>, <<"1HGCM82633A004352", 7500>>,
       <<"1HGCM82633A004352", 15000>>, <<"1HGCM82633A004352", 15000>>,
       <<"WBAJ71M202A123456", 7500>>, <<"WBAJ71M202A123456", 20000>>,
       <<"1F1J7J2033A123456", 5000>>, <<"1F1J7J2033A123456", 30000>> >>

SeedRepairs ==
    << <<"1HGCM82633A004352", 42000>>, <<"1HGCM82633A004352", 40000>>,
       <<"1HGCM82633A004352", 40000>>, <<"WBAJ71M202A123456", 24000>>,
       <<"1F1J7J2033A123456", 55000>> >>

\* for x in list: cursor.execute("INSERT OR IGNORE INTO t ...", x)
\* on a statement result res; the first failing statement ends the loop
RECURSIVE InsertAll(_, _, _, _)
InsertAll(res, t, list, time) ==
    IF list = << >> \/ res.exc # NoExc THEN res
    ELSE InsertAll(
            SqlInsert(res.store, t,
                      (TextCol(t) :> Head(list)[1]) @@ (DataCol(t) :> Head(list)[2]),
                      time, TRUE),
            t, Tail(list), time)

CountRows(s, t) == Cardinality(s.tables[t])

\* the three loops of _seed_sample_data
SeedRows(s, time) ==
    InsertAll(
        InsertAll(
            InsertAll(NothingRun(s), "vehicles", SeedVehicles, time),
            "maintenance_intervals", SeedMaintenance, time),
        "repairs", SeedRepairs, time)

\* conn.commit() after the loops; a failure leaves the rows to be dropped by close
Seeded(s, r) ==
    IF r.exc # NoExc
    THEN [store |-> s, exc |-> r.exc, seeded |-> FALSE]
    ELSE [store |-> r.store, exc |-> NoExc, seeded |-> TRUE]

\* SeedSampleData without the "already seeded" check
SeedSampleDataUnguarded(s, time) == Seeded(s, SeedRows(s, time))

\* _seed_sample_data(conn): gives [store, exc, seeded]
SeedSampleData(s, time) ==
    IF "vehicles" \notin TableSet(s)
    THEN [store |-> s, exc |-> "OperationalError", seeded |-> FALSE]
    ELSE IF CountRows(s, "vehicles") > 0
    THEN [store |-> s, exc |-> NoExc, seeded |-> FALSE]
    ELSE Seeded(s, SeedRows(s, time))

\* _create_tables_inline: the script, commit, the seeding, close
CreateTablesInline(s, time) == SeedSampleData(CreateSchema(s), time)

\* table_exists: SELECT name FROM sqlite_master WHERE type='table' AND name=?
TableExists(s, name) == name \in TableSet(s)

\* NeedsInit with "and" where the code has "or"
NeedsInitBoth(exists, s) == ~exists /\ ~TableExists(s, "vehicles")

\* the condition of ensure_initialized
NeedsInit(exists, s) == ~exists \/ ~TableExists(s, "vehicles")

(***************************************************************************)
(* Inputs.                                                                 *)
(***************************************************************************)
Strs == {"1HGCM82633A004352", "VIN123"}

\* the mappings handed to execute_insert: both columns, one of them, none
InsertData(t) ==
    {(TextCol(t) :> x) @@ (DataCol(t) :> 0) : x \in Strs}
        \cup {(TextCol(t) :> "VIN123"), (DataCol(t) :> 0), << >>}

UpdateData(t) == {(DataCol(t) :> 50000)}

Wheres(t) == {[col |-> TextCol(t), val |-> x] : x \in Strs} \cup {WhereAll}

BodyStmts ==
    {[kind |-> "insert", table |-> "vehicles",
      data |-> ("vin" :> "VIN123") @@ ("current_mileage" :> 0)],
     [kind |-> "update", table |-> "vehicles",
      data |-> ("current_mileage" :> 50000), where |-> [col |-> "vin", val |-> "VIN123"]]}

SeqsUpTo(S, n) == UNION {[1..k -> S] : k \in 0..n}

Bodies ==
    {[stmts |-> q, raises |-> e] :
        q \in SeqsUpTo(BodyStmts, MaxBody), e \in {NoExc, "ValueError", "KeyboardInterrupt"}}

\* which engine calls fail; a call that is never reached is left FALSE
Faults ==
    {f \in [pragma : BOOLEAN, begin : BOOLEAN, commit : BOOLEAN, rollback : BOOLEAN] :
        /\ f.pragma => ~(f.begin \/ f.commit \/ f.rollback)
        /\ f.begin => ~f.commit}

\* the store files a process may start with: none, or one holding some tables
InitTableSets == {{}, {"vehicles"}, AllTables \ {"vehicles"}, AllTables}

(***************************************************************************)
(* Actions: one per handler.                                               *)
(***************************************************************************)
NoWhere == [col |-> "-", val |-> "-"]

\* a call that passes no field mapping
NoData == << >>

\* every handler connects (sqlite3.connect creates the file), leaves the
\* store as its scope committed it, and reports to its caller
Finish(newStore, leaked, report) ==
    /\ newStore # store => writes < MaxWrites
    /\ leaked > 0 => openConns < MaxLeaks
    /\ store' = newStore
    /\ writes' = IF newStore # store THEN writes + 1 ELSE writes
    /\ openConns' = openConns + leaked
    /\ fileExists' = TRUE
    /\ last' = report
    /\ UNCHANGED now

\* execute_insert handing back the row count, as execute_update does
ReturnedRowcount(op, r) ==
    CASE op \in {"insert", "update", "delete"} -> r.rowcount
      [] OTHER -> 0

\* the value handed back by the handler op, whose scope gave r
Returned(op, r) ==
    CASE op = "insert" -> r.lastrowid
      [] op \in {"update", "delete"} -> r.rowcount
      [] OTHER -> 0

\* a handler that ran the scope result r
FinishScope(op, t, d, w, matched, r) ==
    Finish(r.store, r.leaked,
           [op |-> op, table |-> t, data |-> d, where |-> w,
            matched |-> matched,
            calls |-> r.calls, original |-> r.original, raised |-> r.raised,
            dirty |-> r.dirty, result |-> Returned(op, r),
            ranInit |-> FALSE, seeded |-> FALSE])

\* a handler that ran the initializer result r, or did not (ran = FALSE)
FinishInit(op, ran, r) ==
    Finish(r.store, 0,
           [op |-> op, table |-> "-", data |-> NoData, where |-> NoWhere,
            matched |-> 0,
            calls |-> << >>, original |-> r.exc, raised |-> r.exc,
            dirty |-> FALSE, result |-> 0,
            ranInit |-> ran, seeded |-> r.seeded])

MatchCount(t, w) ==
    IF t \in TableSet(store)
    THEN Cardinality({r \in store.tables[t] : Matches(r, w)})
    ELSE 0 - 1

OneStmt(st) == [stmts |-> <<st>>, raises |-> NoExc]

\* with connection() as conn: <body>
UseConnection ==
    \E body \in Bodies, f \in Faults :
        FinishScope("connection", "-", NoData, NoWhere, 0,
                    Scope("connection", store, body, f, now))

\* with transaction() as conn: <body>
UseTransaction ==
    \E body \in Bodies, f \in Faults :
        FinishScope("transaction", "-", NoData, NoWhere, 0,
                    Scope("transaction", store, body, f, now))

ExecuteInsert(t) ==
    \E data \in InsertData(t) :
        FinishScope("insert", t, data, NoWhere, 0,
                    Scope("connection", store,
                          OneStmt([kind |-> "insert", table |-> t, data |-> data]),
                          NoFaults, now))

ExecuteUpdate(t) ==
    \E data \in UpdateData(t), w \in Wheres(t) :
        FinishScope("update", t, data, w, MatchCount(t, w),
                    Scope("connection", store,
                          OneStmt([kind |-> "update", table |-> t,
                                   data |-> data, where |-> w]),
                          NoFaults, now))

ExecuteDelete(t) ==
    \E w \in Wheres(t) :
        FinishScope("delete", t, NoData, w, MatchCount(t, w),
                    Scope("connection", store,
                          OneStmt([kind |-> "delete", table |-> t, where |-> w]),
                          NoFaults, now))

CreateTables == FinishInit("create_tables", TRUE, CreateTablesInline(store, now))

EnsureInitialized ==
    IF NeedsInit(fileExists, store)
    THEN FinishInit("ensure_initialized", TRUE, CreateTablesInline(store, now))
    ELSE FinishInit("ensure_initialized", FALSE,
                    [store |-> store, exc |-> NoExc, seeded |-> FALSE])

Tick ==
    /\ now < MaxTime
    /\ now' = now + 1
    /\ UNCHANGED <<fileExists, store, openConns, writes, last>>

Init ==
    /\ fileExists \in BOOLEAN
    /\ \E ts \in InitTableSets :
          /\ ~fileExists => ts = {}
          /\ store = [EmptyStore EXCEPT !.tables = [t \in ts |-> {}]]
    /\ now = 0
    /\ openConns = 0
    /\ writes = 0
    /\ last = [op |-> "init", table |-> "-", data |-> NoData, where |-> NoWhere,
               matched |-> 0,
               calls |-> << >>, original |-> NoExc, raised |-> NoExc,
               dirty |-> FALSE, result |-> 0, ranInit |-> FALSE, seeded |-> FALSE]

Next ==
    \/ UseConnection
    \/ UseTransaction
    \/ \E t \in AllTables : ExecuteInsert(t)
    \/ \E t \in AllTables : ExecuteUpdate(t)
    \/ \E t \in AllTables : ExecuteDelete(t)
    \/ CreateTables
    \/ EnsureInitialized
    \/ Tick

Spec == Init /\ [][Next]_vars

\* the scopes, over a store that the initializer may have filled
NextScope == UseConnection \/ UseTransaction \/ CreateTables

SpecScope == Init /\ [][NextScope]_vars

\* the CRUD executor as time passes, on a table of each shape: the two with a
\* text key, and AUTOINCREMENT ids with a vin and updated_at, without
\* updated_at, and with a UNIQUE column
CrudTables == {"vehicles", "settings", "repairs", "mileage_history", "users"}

NextStore ==
    \/ \E t \in CrudTables : ExecuteInsert(t)
    \/ \E t \in CrudTables : ExecuteUpdate(t)
    \/ \E t \in CrudTables : ExecuteDelete(t)
    \/ Tick

SpecStore == Init /\ [][NextStore]_vars

\* the initializer, with the CRUD executor on the tables the seeding fills
SeededTables == {"vehicles", "maintenance_intervals", "repairs"}

NextInit ==
    \/ \E t \in SeededTables : ExecuteInsert(t)
    \/ \E t \in SeededTables : ExecuteUpdate(t)
    \/ \E t \in SeededTables : ExecuteDelete(t)
    \/ CreateTables
    \/ EnsureInitialized

SpecInit == Init /\ [][NextInit]_vars

\* execute_insert on a table of each shape once the schema exists, with
\* deletes that free rowids, as time passes
InitSchema == Init /\ TableSet(store) = AllTables

NextInsert ==
    \/ \E t \in CrudTables : ExecuteInsert(t)
    \/ \E t \in CrudTables : ExecuteDelete(t)
    \/ Tick

SpecInsert == InitSchema /\ [][NextInsert]_vars

(***************************************************************************)
(* Properties of the scopes.                                               *)
(***************************************************************************)
Count(calls, x) == Cardinality({i \in DOMAIN calls : calls[i] = x})

Index(calls, x) == CHOOSE i \in DOMAIN calls : calls[i] = x

\* the last handler call was a use of connection() or transaction()
ScopeRan == last.op \in {"connection", "transaction"}

\* failures of the unit of work or of commit that "except Exception" catches
CaughtFailures == {"ValueError", "IntegrityError", "OperationalError", "CommitError"}

\* failures raised by the unit of work
BodyFailures == {"ValueError", "KeyboardInterrupt", "IntegrityError", "OperationalError"}

\* C1, as stated: in one invocation of a scope, on every exit path, commit
\* and rollback are never both called.
C1_NeverCommitAndRollback ==
    ScopeRan => ~(Count(last.calls, "commit") > 0 /\ Count(last.calls, "rollback") > 0)

\* C1, amended: in one invocation each of commit and rollback is called at
\* most once, commit is never called after rollback, and rollback is called
\* after commit only when that commit raised; so at most one takes effect.
C1_AtMostOneTakesEffect ==
    ScopeRan =>
        /\ Count(last.calls, "commit") <= 1
        /\ Count(last.calls, "rollback") <= 1
        /\ (Count(last.calls, "commit") > 0 /\ Count(last.calls, "rollback") > 0) =>
              /\ last.original = "CommitError"
              /\ Index(last.calls, "commit") < Index(last.calls, "rollback")

\* a scope whose commit raised and was followed by the rollback
C1_Witness ==
    /\ ScopeRan
    /\ last.original = "CommitError"
    /\ Count(last.calls, "commit") = 1
    /\ Count(last.calls, "rollback") = 1

\* C2: every connection a scope opens is closed exactly once, as the last
\* step, on every exit path, and no connection remains open afterwards.
C2_ClosedExactlyOnce ==
    /\ ScopeRan =>
          /\ Count(last.calls, "close") = 1
          /\ last.calls[Len(last.calls)] = "close"
    /\ openConns = 0

\* C3: a failure raised in a scope by the unit of work or by commit (one
\* that "except Exception" catches) is rolled back, logged, and reaches the
\* caller unchanged, also when the rollback fails.
C3_OriginalFailurePropagated ==
    (ScopeRan /\ last.original \in CaughtFailures) =>
        /\ Count(last.calls, "rollback") = 1
        /\ Count(last.calls, "log") = 1
        /\ last.raised = last.original

\* C4: a scope whose unit of work raises leaves the committed store as it
\* was before the scope was entered, whatever the unit of work wrote.
C4_FailedScopeLeavesStore ==
    [][(last'.op \in {"connection", "transaction"} /\ last'.original \in BodyFailures)
          => store' = store]_vars

\* a unit of work that wrote and then raised
C4_Witness ==
    /\ ScopeRan
    /\ last.original = "ValueError"
    /\ last.dirty

(***************************************************************************)
(* Properties of the CRUD executor and of the initializer.                 *)
(***************************************************************************)
RowsOf(s, t) == IF t \in TableSet(s) THEN s.tables[t] ELSE {}

ByVin(w) == w.col = "vin"

\* C5: execute_delete on vehicles for a VIN that repairs rows name fails
\* with a referential-integrity error and changes nothing.
C5_DeleteWithRepairsRejected ==
    [][(/\ last'.op = "delete"
        /\ last'.table = "vehicles"
        /\ ByVin(last'.where)
        /\ \E v \in RowsOf(store, "vehicles") : v["vin"] = last'.where.val
        /\ \E r \in RowsOf(store, "repairs") : r["vin"] = last'.where.val)
          => (last'.raised = "IntegrityError" /\ store' = store)]_vars

InitializerRan(l) == l.op = "create_tables" \/ (l.op = "ensure_initialized" /\ l.ranInit)

SeedCounts(s) ==
    <<CountRows(s, "vehicles"), CountRows(s, "maintenance_intervals"),
      CountRows(s, "repairs")>>

\* C6: a completed seeding leaves at least one vehicles row; a seeding that
\* finds at least one vehicles row inserts nothing and raises nothing; so a
\* second call right after a first leaves the three row counts as they were.
C6_SeedOnce ==
    [][InitializerRan(last') =>
          /\ last'.raised = NoExc
          /\ CountRows(store', "vehicles") >= 1
          /\ RowsOf(store, "vehicles") # {} =>
                /\ ~last'.seeded
                /\ \A t \in TableSet(store) : store'.tables[t] = store.tables[t]
          /\ InitializerRan(last) => SeedCounts(store') = SeedCounts(store)]_vars

\* the initializer called on a store that an earlier call seeded
C6_Witness ==
    /\ last.op = "create_tables"
    /\ ~last.seeded
    /\ SeedCounts(store) = <<Len(SeedVehicles), Len(SeedMaintenance), Len(SeedRepairs)>>

\* C7: schema creation, from a store with none, some or all of the tables,
\* raises nothing, keeps every row of every table that existed, and ends
\* with the full table set.
C7_CreateSchemaIdempotent ==
    [][last'.op = "create_tables" =>
          /\ last'.raised = NoExc
          /\ TableSet(store') = AllTables
          /\ \A t \in TableSet(store) : store.tables[t] \subseteq store'.tables[t]]_vars

\* schema creation ran over a table holding a row that the executor inserted
C7_Witness ==
    /\ last.op = "create_tables"
    /\ \E r \in RowsOf(store, "vehicles") : r["vin"] = "VIN123"

\* C8: ensure_initialized runs the initializer exactly when the file is
\* missing or holds no vehicles table, and otherwise changes nothing; after
\* it the vehicles table exists, and no CRUD operation or initializer call
\* removes the file or the table, so no later call initializes again.
C8_EnsureInitializedOnce ==
    [][/\ last'.op = "ensure_initialized" =>
            /\ last'.ranInit <=> (~fileExists \/ "vehicles" \notin TableSet(store))
            /\ ~last'.ranInit => store' = store
            /\ last'.raised = NoExc
            /\ fileExists' /\ "vehicles" \in TableSet(store')
       /\ (fileExists /\ "vehicles" \in TableSet(store)) =>
            (fileExists' /\ "vehicles" \in TableSet(store'))]_vars

\* a later call, after an initialization and an insert, that did not initialize
C8_Witness ==
    /\ last.op = "ensure_initialized"
    /\ ~last.ranInit
    /\ CountRows(store, "vehicles") = Len(SeedVehicles) + 1

\* C9: execute_update on any table of the schema sets updated_at of every
\* row the predicate matches to the current time, not earlier than before.
C9_UpdateStampsUpdatedAt ==
    [][(last'.op = "update" /\ last'.matched > 0 /\ now' = now) =>
          /\ last'.raised = NoExc
          /\ \A r \in RowsOf(store, last'.table) :
                Matches(r, last'.where) =>
                    \E u \in RowsOf(store', last'.table) :
                        /\ u["rowid"] = r["rowid"]
                        /\ u["updated_at"] = now
                        /\ u["updated_at"] >= r["updated_at"]]_vars

\* C10: execute_update and execute_delete with a predicate that matches no
\* row return 0, raise nothing and change no row.
C10_NoMatchIsNoOp ==
    [][(last'.op \in {"update", "delete"} /\ last'.matched = 0) =>
          /\ last'.raised = NoExc
          /\ last'.result = 0
          /\ store' = store]_vars

(***************************************************************************)
(* Properties of execute_insert.                                           *)
(***************************************************************************)
\* the last step was an execute_insert of a non-empty mapping that returned
InsertReturned ==
    /\ last'.op = "insert"
    /\ last'.raised = NoExc
    /\ last'.data # NoData
    /\ store' # store

\* SELECT * FROM t WHERE <primary key> = id, for an integer id.  A text key
\* (vin, key) is compared with the decimal text of id, which no VIN or
\* settings key of the model is.
LookupByPk(s, t, id) ==
    IF PkCol(t) = "id" THEN {r \in RowsOf(s, t) : r["id"] = id} ELSE {}

\* SELECT * FROM t WHERE rowid = id
LookupByRowid(s, t, id) == {r \in RowsOf(s, t) : r["rowid"] = id}

\* the lookup gave exactly one row, which holds the values of the mapping in
\* the columns it names and the schema's default in every other column
RoundTrip(hits, t, data, time) ==
    /\ Cardinality(hits) = 1
    /\ \A r \in hits : \A c \in Columns(t) :
          r[c] = IF c \in DOMAIN data THEN data[c]
                 ELSE ColumnDefault(t, c, r["rowid"], time)

\* C11 as stated: on every table of the schema, vehicles with its VIN key
\* included, the value execute_insert returns looks the new row up by the
\* table's primary key: exactly one row, with the inserted values and the
\* defaults of the omitted columns.
C11_InsertRoundTripByPk ==
    [][InsertReturned =>
          RoundTrip(LookupByPk(store', last'.table, last'.result),
                    last'.table, last'.data, now)]_vars

\* C11 amended: the value execute_insert returns is the rowid of the new
\* row.  A lookup by rowid gives exactly one row, with the inserted values
\* and the defaults of the omitted columns; the rowid is the primary key on
\* the tables with an integer id, and on vehicles and settings the primary
\* key of that row is the text the mapping supplied.
C11_InsertRoundTripByRowid ==
    [][InsertReturned =>
          /\ RoundTrip(LookupByRowid(store', last'.table, last'.result),
                       last'.table, last'.data, now)
          /\ AutoIncrement(last'.table) =>
                LookupByPk(store', last'.table, last'.result)
                    = LookupByRowid(store', last'.table, last'.result)
          /\ ~AutoIncrement(last'.table) =>
                \A r \in LookupByRowid(store', last'.table, last'.result) :
                    r[PkCol(last'.table)] = last'.data[PkCol(last'.table)]]_vars

\* the spec's scenario, as the second vehicle: VIN123 inserted without a
\* mileage got rowid 2 and the default current_mileage
C11_Witness ==
    /\ last.op = "insert" /\ last.table = "vehicles" /\ last.raised = NoExc
    /\ DOMAIN last.data = {"vin"}
    /\ last.result = 2
    /\ \E r \in RowsOf(store, "vehicles") :
          /\ r["rowid"] = last.result
          /\ r["vin"] = "VIN123"
          /\ r["current_mileage"] = 0

====
